---------------------------- MODULE Spec2Model ----------------------------
(***************************************************************************)
(* Maze engine: the grid/neighbour helpers, the three solving strategies   *)
(* (BFSSolver, DFSSolver, DFSRecursiveSolver), the three generation        *)
(* strategies (EmptyMaze, RandomDFS, RandomPrims) and the Maze             *)
(* orchestrator (generate, hole_punch).                                    *)
(*                                                                         *)
(* A cell is a pair <<x, y>>.  Every random draw of the program (shuffle,  *)
(* choice, randint) and every iteration over a Python set is a            *)
(* nondeterministic choice.  The renderer is never called: every run is    *)
(* with live = False.  The solver and generator modules import the         *)
(* neighbour helper under the name get_nieghbors; it is modelled as        *)
(* helper_functions.get_neighbors.                                         *)
(***************************************************************************)
EXTENDS Integers, Sequences, FiniteSets, TLC

\* ------------------------------------------------------------------ bounds
\* largest grid of the solver harness (SpecSolve); the smallest is 3 by 3
SolveMaxX == 5
SolveMaxY == 4
\* largest corridor set handed to the solvers
MaxCorridors == 4
\* largest grid of the orchestrator (SpecMaze); the smallest is 3 by 3
MaxSizeX == 5
MaxSizeY == 5
\* holes drawn on one Maze, over Maze.generate and all Maze.hole_punch calls
MaxHoles == 1
\* largest grid and most holes of the orchestrator on wide grids (SpecWide)
WideMaxX == 7
WideMaxY == 3
WideMaxHoles == 2
\* the generators run on their own (SpecGen): largest grid
GenMaxX == 7
GenMaxY == 6
\* the nested dfs() calls that can be in their loop when
\* DFSRecursiveSolver.solve is called from the top level of a script:
\* sys.getrecursionlimit() is 1000 in CPython, the script, solve() and the
\* shuffle() of the innermost dfs() take the rest
RecursionLimit == 995
\* a Maze constructed with a solution_path (SpecStored): largest grid, holes
StoredMaxX == 5
StoredMaxY == 3
StoredMaxHoles == 1
\* generate_and_display_maze (SpecDisplay): largest x and y, largest holes
DisplayMaxX == 6
DisplayMaxY == 3
DisplayMaxHoles == 1
\* direct calls of get_neighbors (SpecHelper): largest coordinate, step and
\* grid size; the smallest are 0, 1 and 1
HelperMaxCoord == 5
HelperMaxStep == 2
HelperMaxSize == 5

VARIABLES
    size_x, size_y,     \* grid dimensions (Maze.size_x, Maze.size_y / solve arguments)
    corridors,          \* the corridor set (Maze.corridors / solve argument)
    start, end,         \* start and end cell (Maze.start, Maze.end / solve arguments)
    pc,                 \* which call is running
    search_queue,       \* BFSSolver.solve: the deque
    searched,           \* BFSSolver.solve: cells already enqueued
    parent,             \* BFSSolver.solve: parent map
    bfs_path,           \* what BFSSolver.solve returned
    search_q,           \* DFSSolver.solve: the stack
    visited,            \* DFSSolver.solve / DFSRecursiveSolver.solve: visited
    parents,            \* DFSSolver.solve: parent map
    dfs_path,           \* what DFSSolver.solve returned
    frames,             \* DFSRecursiveSolver.solve: the active dfs() calls
    frontier_path,      \* DFSRecursiveSolver.solve: frontier_path
    ret,                \* DFSRecursiveSolver.solve: value the top dfs() call is returning
    rec_path,           \* what DFSRecursiveSolver.solve returned
    gen_strat,          \* Maze.gen_strat: "EmptyMaze", "RandomDFS" or "RandomPrims"
    gen_corridors,      \* generate(): the local corridors set being carved
    prim_q,             \* RandomPrims.generate: search_q, the frontier set
    walls,              \* Maze.hole_punch: the list of interior wall cells
    holes_left,         \* the holes argument; in hole_punch, the iterations left
    punched,            \* number of holes asked for so far
    gen_calls,          \* generate calls so far
    start_cell_buffer,  \* Maze.start_cell_buffer
    end_cell_buffer,    \* Maze.end_cell_buffer
    error,              \* the exception that ended the run, or "none"
    start_coord,        \* generate(): the local start_coord
    holes,              \* Maze.hole_punch: the holes argument of the running call
    hole_budget,        \* the most holes asked for on this Maze
    call,               \* the Maze method called last: "none", "generate", "solve", "hole_punch"
    returned,           \* what the Maze method called last returned
    solution_path,      \* Maze.solution_path
    nbr_args,           \* the arguments of a direct get_neighbors call
    nbr_ret             \* what that call and remove_out_of_bounds_neighbors returned

inputVars == <<size_x, size_y, corridors, start, end>>
bfsVars == <<search_queue, searched, parent, bfs_path>>
dfsVars == <<search_q, parents, dfs_path>>
recVars == <<frames, frontier_path, ret, rec_path>>
callVars == <<start_coord, holes, hole_budget, call, returned, solution_path>>
helperVars == <<nbr_args, nbr_ret>>
mazeVars == <<gen_strat, gen_corridors, prim_q, walls, holes_left, punched,
              gen_calls,
              start_cell_buffer, end_cell_buffer, error, callVars,
              helperVars>>
vars == <<inputVars, pc, bfsVars, dfsVars, visited, recVars, mazeVars>>

\* ----------------------------------------------------------- Python values
\* A returned value: not returned yet, None, or a set of cells.
Pending == [tag |-> "pending", cells |-> {}]
None == [tag |-> "None", cells |-> {}]
SetOf(S) == [tag |-> "set", cells |-> S]

\* a local that holds no cell
NoCoord == <<-1, -1>>

\* an empty dict
EmptyDict == [c \in {} |-> c]

\* range(a, b)
Range(a, b) == a .. (b - 1)

\* every order a shuffle (or the iteration of a set) can give
RECURSIVE Perms(_)
Perms(S) ==
    IF S = {} THEN {<<>>}
    ELSE UNION {{<<x>> \o p : p \in Perms(S \ {x})} : x \in S}

Reverse(s) == [i \in 1..Len(s) |-> s[Len(s) + 1 - i]]
ToSet(s) == {s[i] : i \in 1..Len(s)}

\* -------------------------------------------------------- helper_functions
\* get_neighbors(coord, step, size_x, size_y, exclude): an absent size is 0
\* (None and 0 are both false in `if size_x and size_y`), an absent exclude {}.
\* get_neighbors with the west neighbour left out
get_neighbors_NoWest(coord, step, sx, sy, exclude) ==
    LET nbrs == { <<coord[1], coord[2] - step>>,
                  <<coord[1] + step, coord[2]>>,
                  <<coord[1], coord[2] + step>> }
    IN  IF sx # 0 /\ sy # 0
        THEN {nbr \in nbrs : /\ 0 < nbr[1] /\ nbr[1] < sx - 1
                             /\ 0 < nbr[2] /\ nbr[2] < sy - 1
                             /\ nbr \notin exclude}
        ELSE nbrs

\* get_neighbors with <= for < in the bounds test
get_neighbors_EdgeKept(coord, step, sx, sy, exclude) ==
    LET nbrs == { <<coord[1], coord[2] - step>>,
                  <<coord[1] + step, coord[2]>>,
                  <<coord[1], coord[2] + step>>,
                  <<coord[1] - step, coord[2]>> }
    IN  IF sx # 0 /\ sy # 0
        THEN {nbr \in nbrs : /\ 0 <= nbr[1] /\ nbr[1] <= sx - 1
                             /\ 0 <= nbr[2] /\ nbr[2] <= sy - 1
                             /\ nbr \notin exclude}
        ELSE nbrs

get_neighbors(coord, step, sx, sy, exclude) ==
    LET nbrs == { <<coord[1], coord[2] - step>>,
                  <<coord[1] + step, coord[2]>>,
                  <<coord[1], coord[2] + step>>,
                  <<coord[1] - step, coord[2]>> }
    IN  IF sx # 0 /\ sy # 0
        THEN {nbr \in nbrs : /\ 0 < nbr[1] /\ nbr[1] < sx - 1
                             /\ 0 < nbr[2] /\ nbr[2] < sy - 1
                             /\ nbr \notin exclude}
        ELSE nbrs

\* remove_out_of_bounds_neighbors with >= for >: the border row and column
\* are kept
remove_out_of_bounds_neighbors_KeepBorder(neighbors, sx, sy) ==
    {nbr \in neighbors : /\ (sx - 1) >= nbr[1] /\ nbr[1] >= 0
                         /\ (sy - 1) >= nbr[2] /\ nbr[2] >= 0}

remove_out_of_bounds_neighbors(neighbors, sx, sy) ==
    {nbr \in neighbors : /\ (sx - 1) > nbr[1] /\ nbr[1] > 0
                         /\ (sy - 1) > nbr[2] /\ nbr[2] > 0}

\* ---------------------------------------------------------------- BFSSolver
\* path = [cell]; while path[-1] != start: path.append(parent[path[-1]])
RECURSIVE BFSPathBack(_, _, _)
BFSPathBack(par, start_cell, cell) ==
    IF cell = start_cell THEN <<cell>>
    ELSE <<cell>> \o BFSPathBack(par, start_cell, par[cell])

\* the reconstruction that stops before start
BFSReconstruct_NoStart(par, start_cell, cell) ==
    ToSet(Reverse(BFSPathBack(par, start_cell, cell))) \ {start_cell}

BFSReconstruct(par, start_cell, cell) ==
    ToSet(Reverse(BFSPathBack(par, start_cell, cell)))

\* the neighbours enqueued without the test `nbr not in searched`
BFSNewCells_Researched(cell) ==
    {nbr \in get_neighbors(cell, 1, 0, 0, {}) : nbr \in corridors}

\* the neighbours one BFS iteration enqueues
BFSNewCells(cell) ==
    {nbr \in get_neighbors(cell, 1, 0, 0, {}) :
        nbr \notin searched /\ nbr \in corridors}

BFSSolver_solve ==
    /\ pc = "idle"
    /\ dfs_path # Pending
    /\ bfs_path = Pending
    /\ search_queue' = <<start>>
    /\ searched' = {start}
    /\ parent' = EmptyDict
    /\ pc' = "bfs"
    /\ UNCHANGED <<inputVars, bfs_path, dfsVars, visited, recVars, mazeVars>>

\* one iteration of `while search_queue`; the locals are dropped on return
BFSStep ==
    /\ pc = "bfs"
    /\ search_queue # <<>>
    /\ LET cell == Head(search_queue)
           rest == Tail(search_queue)
       IN  IF cell = end
           THEN /\ bfs_path' = SetOf(BFSReconstruct(parent, start, cell))
                /\ pc' = "idle"
                /\ search_queue' = <<>> /\ searched' = {} /\ parent' = EmptyDict
           ELSE IF cell \in corridors
           THEN \E order \in Perms(BFSNewCells(cell)) :
                    /\ search_queue' = rest \o order
                    /\ searched' = searched \cup BFSNewCells(cell)
                    /\ parent' = [c \in DOMAIN parent \cup BFSNewCells(cell) |->
                                    IF c \in BFSNewCells(cell) THEN cell ELSE parent[c]]
                    /\ UNCHANGED <<bfs_path, pc>>
           ELSE /\ search_queue' = rest
                /\ UNCHANGED <<searched, parent, bfs_path, pc>>
    /\ UNCHANGED <<inputVars, dfsVars, visited, recVars, mazeVars>>

\* the loop's else: the queue is exhausted
BFSExhausted ==
    /\ pc = "bfs"
    /\ search_queue = <<>>
    /\ bfs_path' = None
    /\ pc' = "idle"
    /\ searched' = {} /\ parent' = EmptyDict
    /\ UNCHANGED <<inputVars, search_queue, dfsVars, visited, recVars, mazeVars>>

\* ---------------------------------------------------------------- DFSSolver
\* DFSSolver.reconstruct: path = [end_cell]; walk the parents up to start_cell
RECURSIVE DFSPathBack(_, _, _)
DFSPathBack(par, start_cell, cell) ==
    IF cell = start_cell THEN <<cell>>
    ELSE <<cell>> \o DFSPathBack(par, start_cell, par[cell])

reconstruct(par, start_cell, end_cell) ==
    ToSet(Reverse(DFSPathBack(par, start_cell, end_cell)))

\* nbrs of one DFS iteration: in bounds and not visited (corridor or not)
DFSNbrs(current_cell) == get_neighbors(current_cell, 1, size_x, size_y, visited)

\* the push without the test `nbr in corridors`
DFSNewCells_ThroughWalls(current_cell) ==
    {nbr \in DFSNbrs(current_cell) : nbr \notin visited}

\* the neighbours one DFS iteration pushes
DFSNewCells(current_cell) ==
    {nbr \in DFSNbrs(current_cell) : nbr \notin visited /\ nbr \in corridors}

\* what the iteration that finds end among nbrs returns
DFSFound(current_cell) == reconstruct(parents, start, current_cell)

DFSSolver_solve ==
    /\ pc = "idle"
    /\ rec_path # Pending
    /\ dfs_path = Pending
    /\ search_q' = <<start>>
    /\ visited' = {start}
    /\ parents' = EmptyDict
    /\ pc' = "dfs"
    /\ UNCHANGED <<inputVars, bfsVars, dfs_path, recVars, mazeVars>>

\* one iteration of `while search_q`; the locals are dropped on return
DFSStep ==
    /\ pc = "dfs"
    /\ search_q # <<>>
    /\ LET current_cell == search_q[Len(search_q)]
           rest == SubSeq(search_q, 1, Len(search_q) - 1)
           nbrs == DFSNbrs(current_cell)
           new == DFSNewCells(current_cell)
       IN  IF nbrs = {}
           THEN /\ search_q' = rest
                /\ UNCHANGED <<visited, parents, dfs_path, pc>>
           ELSE IF end \in nbrs
           THEN /\ dfs_path' = SetOf(DFSFound(current_cell))
                /\ pc' = "idle"
                /\ search_q' = <<>> /\ visited' = {} /\ parents' = EmptyDict
           ELSE \E order \in Perms(new) :
                    /\ search_q' = rest \o order
                    /\ visited' = visited \cup new
                    /\ parents' = [c \in DOMAIN parents \cup new |->
                                     IF c \in new THEN current_cell ELSE parents[c]]
                    /\ UNCHANGED <<dfs_path, pc>>
    /\ UNCHANGED <<inputVars, bfsVars, recVars, mazeVars>>

\* the loop's else: the stack is exhausted
DFSExhausted ==
    /\ pc = "dfs"
    /\ search_q = <<>>
    /\ dfs_path' = SetOf({})
    /\ pc' = "idle"
    /\ visited' = {} /\ parents' = EmptyDict
    /\ UNCHANGED <<inputVars, bfsVars, search_q, recVars, mazeVars>>

\* ------------------------------------------------------- DFSRecursiveSolver
\* nbrs of one dfs() call: the in-bounds neighbours (corridor or not)
RecNbrs(next_cell) ==
    remove_out_of_bounds_neighbors(get_neighbors(next_cell, 1, 0, 0, {}),
                                   size_x, size_y)

\* what dfs(next_cell) returns before its loop: "loop" when it enters the loop
RecEarly(next_cell) ==
    IF RecNbrs(next_cell) = {} THEN SetOf({})
    ELSE IF end \in RecNbrs(next_cell) THEN SetOf({end})
    ELSE Pending

\* the value a caller passes up for a solution found through nbr
RecUnion(solution, nbr) == solution \cup {nbr}

\* solve(): visited, frontier_path, then the call dfs(start)
DFSRecursiveSolver_solve ==
    /\ pc = "idle"
    /\ rec_path = Pending
    /\ IF RecEarly(start) = Pending
       THEN /\ frames' = <<[cell |-> start, nbrs |-> RecNbrs(start)]>>
            /\ visited' = {start}
            /\ frontier_path' = {start}
            /\ pc' = "rec"
            /\ UNCHANGED rec_path
       ELSE /\ rec_path' = RecEarly(start)
            /\ UNCHANGED <<frames, visited, frontier_path, pc>>
    /\ UNCHANGED <<inputVars, bfsVars, dfsVars, ret, mazeVars>>

\* the nbrs of a dfs() call that still pass `nbr not in visited and nbr in
\* corridors`
RecOpen(frame) == {nbr \in frame.nbrs : nbr \notin visited /\ nbr \in corridors}

\* One iteration of `for nbr in nbrs` in the innermost dfs() call whose `if`
\* holds (the others change nothing).  The list was shuffled, so the next
\* such nbr is any of those not iterated yet.
RecLoop ==
    /\ pc = "rec"
    /\ ret = Pending
    /\ frames # <<>>
    /\ LET n == Len(frames)
           top == frames[n]
       IN  \E nbr \in RecOpen(top) :
            LET left == [frames EXCEPT ![n].nbrs = top.nbrs \ {nbr}]
            IN  /\ visited' = visited \cup {nbr}
                /\ frontier_path' = frontier_path \cup {nbr}
                /\ IF RecEarly(nbr) = Pending
                   THEN \* dfs(nbr) enters its own loop
                        /\ Len(frames) < RecursionLimit
                        /\ frames' = Append(left, [cell |-> nbr, nbrs |-> RecNbrs(nbr)])
                        /\ UNCHANGED ret
                   ELSE IF RecEarly(nbr).cells # {}
                   THEN \* dfs(nbr) found end: this call returns
                        /\ ret' = SetOf(RecUnion(RecEarly(nbr).cells, nbr))
                        /\ frames' = left
                   ELSE \* dfs(nbr) returned set(): next nbr
                        /\ frames' = left
                        /\ UNCHANGED ret
    /\ UNCHANGED <<inputVars, pc, bfsVars, dfsVars, rec_path, mazeVars>>

\* the innermost dfs() call calls a dfs(nbr) that goes on to its loop, with
\* no frame left for it: RecursionError leaves every dfs() call and solve()
RecRecursionError ==
    /\ pc = "rec"
    /\ ret = Pending
    /\ frames # <<>>
    /\ Len(frames) >= RecursionLimit
    /\ \E nbr \in RecOpen(frames[Len(frames)]) : RecEarly(nbr) = Pending
    /\ error' = "RecursionError"
    /\ pc' = "raised"
    /\ frames' = <<>>
    /\ visited' = {} /\ frontier_path' = {}
    /\ UNCHANGED <<inputVars, bfsVars, dfsVars, ret, rec_path, gen_strat,
                   gen_corridors, prim_q, walls, holes_left, punched, gen_calls,
                   start_cell_buffer, end_cell_buffer, callVars, helperVars>>

\* the loop of the innermost dfs() call is over: frontier_path.remove, return
\* set(); the caller, if any, goes on with its loop
RecBacktrack ==
    /\ pc = "rec"
    /\ ret = Pending
    /\ frames # <<>>
    /\ RecOpen(frames[Len(frames)]) = {}
    /\ frames' = SubSeq(frames, 1, Len(frames) - 1)
    /\ IF Len(frames) = 1
       THEN /\ rec_path' = SetOf({})
            /\ pc' = "idle"
            /\ visited' = {} /\ frontier_path' = {}
       ELSE /\ frontier_path' = frontier_path \ {frames[Len(frames)].cell}
            /\ UNCHANGED <<rec_path, pc, visited>>
    /\ UNCHANGED <<inputVars, bfsVars, dfsVars, ret, mazeVars>>

\* the innermost dfs() call returns a solution: its caller returns
\* solution.union({nbr}), nbr being the cell of the returning call
RecReturn ==
    /\ pc = "rec"
    /\ ret # Pending
    /\ frames # <<>>
    /\ frames' = SubSeq(frames, 1, Len(frames) - 1)
    /\ IF Len(frames) = 1
       THEN /\ rec_path' = ret
            /\ ret' = Pending
            /\ pc' = "idle"
            /\ visited' = {} /\ frontier_path' = {}
       ELSE /\ ret' = SetOf(RecUnion(ret.cells, frames[Len(frames)].cell))
            /\ UNCHANGED <<rec_path, pc, visited, frontier_path>>
    /\ UNCHANGED <<inputVars, bfsVars, dfsVars, mazeVars>>

\* ------------------------------------------------------------ solver harness
\* The three solve() methods are called one after the other (the recursive
\* DFS, the iterative DFS, then the BFS) on the same size_x, size_y, corridors,
\* start and end.  The corridors lie in the interior
\* and start is a corridor cell, as Maze.generate leaves them; end is any
\* interior cell, corridor or wall.
Interior(sx, sy) == {<<x, y>> : x \in Range(1, sx - 1), y \in Range(1, sy - 1)}

\* the defaults of Maze.start_cell_buffer and Maze.end_cell_buffer
start_cell_buffer_default == 3
end_cell_buffer_default == 3

\* get_neighbors is not called on its own
HelperIdle ==
    /\ nbr_args = <<>>
    /\ nbr_ret = <<>>

\* the Maze fields while no Maze is used
MazeFieldsIdle ==
    /\ gen_strat = "none"
    /\ gen_corridors = {}
    /\ prim_q = {}
    /\ walls = {}
    /\ holes_left = 0
    /\ punched = 0
    /\ gen_calls = 0
    /\ start_cell_buffer = start_cell_buffer_default
    /\ end_cell_buffer = end_cell_buffer_default
    /\ error = "none"
    /\ start_coord = NoCoord
    /\ holes = 0
    /\ hole_budget = 0
    /\ call = "none"
    /\ returned = Pending
    /\ solution_path = None

\* the Maze fields while the solve() methods are called on their own
MazeIdle == MazeFieldsIdle /\ HelperIdle

SolversIdle ==
    /\ pc = "idle"
    /\ search_queue = <<>> /\ searched = {} /\ parent = EmptyDict
    /\ bfs_path = Pending
    /\ search_q = <<>> /\ visited = {} /\ parents = EmptyDict
    /\ dfs_path = Pending
    /\ frames = <<>> /\ frontier_path = {} /\ ret = Pending
    /\ rec_path = Pending

InitSolve ==
    /\ size_x \in 3 .. SolveMaxX
    /\ size_y \in 3 .. SolveMaxY
    /\ corridors \in {c \in SUBSET Interior(size_x, size_y) :
                        Cardinality(c) <= MaxCorridors}
    /\ start \in corridors
    /\ end \in Interior(size_x, size_y)
    /\ SolversIdle
    /\ MazeIdle

NextSolve ==
    \/ BFSSolver_solve \/ BFSStep \/ BFSExhausted
    \/ DFSSolver_solve \/ DFSStep \/ DFSExhausted
    \/ DFSRecursiveSolver_solve \/ RecLoop \/ RecBacktrack \/ RecReturn

SpecSolve == InitSolve /\ [][NextSolve]_vars

\* ------------------------------------------------------ generation strategies
\* EmptyMaze.generate with range(1, size_x - 2): the last column is lost
EmptyMaze_generate_ShortRow(sx, sy) ==
    {<<x, y>> : x \in Range(1, sx - 2), y \in Range(1, sy - 1)}

\* EmptyMaze.generate
EmptyMaze_generate(sx, sy) ==
    {<<x, y>> : x \in Range(1, sx - 1), y \in Range(1, sy - 1)}

\* the carve without the midpoint: the first cell again
Mid_First(a, b) == a

\* mid = ((a[0] + b[0]) // 2, (a[1] + b[1]) // 2)
Mid(a, b) == <<(a[1] + b[1]) \div 2, (a[2] + b[2]) \div 2>>

\* RandomDFS.get_unvisited_neighbors
get_unvisited_neighbors(neighbors, vis) == neighbors \ vis

\* RandomDFS.generate: the candidates of one iteration
RandomDFSCandidates(current_cell) ==
    LET unvisited_nbrs ==
            get_unvisited_neighbors(get_neighbors(current_cell, 2, 0, 0, {}), visited)
    IN  IF unvisited_nbrs # {}
        THEN remove_out_of_bounds_neighbors(unvisited_nbrs, size_x, size_y)
        ELSE unvisited_nbrs

\* the frontier update without exclude=corridors
RandomPrimsNewFrontier_NoExclude(frontier_cell, corr) ==
    get_neighbors(frontier_cell, 2, size_x, size_y, {})

\* the frontier update with step 1 for step 2
RandomPrimsNewFrontier_StepOne(frontier_cell, corr) ==
    get_neighbors(frontier_cell, 1, size_x, size_y, corr)

\* RandomPrims.generate: the cells one carve adds to the frontier
RandomPrimsNewFrontier(frontier_cell, corr) ==
    get_neighbors(frontier_cell, 2, size_x, size_y, corr)

\* RandomPrims.generate: connecting_cells
RandomPrimsConnecting(frontier_cell) ==
    {nbr \in get_neighbors(frontier_cell, 2, size_x, size_y, {}) :
        nbr \in gen_corridors}

\* ----------------------------------------------------------------------- Maze
\* the start_cell_buffer a Maze is constructed with: the default or one less
\* (end_cell_buffer keeps its default)
BufferSettings(default) == {default - 1, default}

\* walls without the test `(x, y) not in self.corridors`
InteriorWalls_All(corr) ==
    {<<x, y>> : x \in Range(1, size_x - 1), y \in Range(1, size_y - 1)}

\* Maze.hole_punch: walls
InteriorWalls(corr) ==
    {<<x, y>> : x \in Range(1, size_x - 1), y \in Range(1, size_y - 1)} \ corr

\* Maze.generate(holes = h), h one of hole_counts, up to the first step of
\* gen_strat.generate; it is called once on each Maze
Maze_generate_holes(hole_counts) ==
    /\ pc = "idle"
    /\ error = "none"
    /\ gen_calls = 0
    /\ gen_calls' = gen_calls + 1
    /\ \E h \in hole_counts : holes_left' = h /\ punched' = h
    /\ call' = "generate"
    /\ returned' = Pending
    /\ \/ /\ gen_strat = "EmptyMaze"
          /\ gen_corridors' = EmptyMaze_generate(size_x, size_y)
          /\ pc' = "gen_done"
          /\ UNCHANGED <<visited, search_q, prim_q, start_coord>>
       \/ /\ gen_strat = "RandomDFS"
          /\ \E x \in 0 .. size_x - 1, y \in 0 .. size_y - 1 :
                /\ start_coord' = <<x, y>>
                /\ visited' = {<<x, y>>}
                /\ search_q' = <<<<x, y>>>>
          /\ gen_corridors' = {}
          /\ pc' = "gen_dfs"
          /\ UNCHANGED prim_q
       \/ /\ gen_strat = "RandomPrims"
          /\ \E x \in 1 .. size_x - 2, y \in 1 .. size_y - 2 :
                /\ start_coord' = <<x, y>>
                /\ prim_q' = get_neighbors(<<x, y>>, 2, size_x, size_y, {})
                /\ gen_corridors' = {<<x, y>>}
          /\ pc' = "gen_prims"
          /\ UNCHANGED <<visited, search_q>>
    /\ UNCHANGED <<inputVars, bfsVars, parents, dfs_path, recVars, gen_strat, walls,
                   start_cell_buffer, end_cell_buffer, error, holes, hole_budget,
                   solution_path, helperVars>>

\* the iteration without `search_q.append(current_cell)`: no way back to a
\* cell with candidates left
RandomDFSStep_NoBacktrack ==
    /\ pc = "gen_dfs"
    /\ search_q # <<>>
    /\ LET current_cell == search_q[Len(search_q)]
           rest == SubSeq(search_q, 1, Len(search_q) - 1)
           unvisited_nbrs == RandomDFSCandidates(current_cell)
       IN  IF unvisited_nbrs # {}
           THEN \E next_cell \in unvisited_nbrs :
                    /\ visited' = visited \cup {next_cell}
                    /\ search_q' = rest \o <<next_cell>>
                    /\ gen_corridors' =
                          gen_corridors \cup {Mid(current_cell, next_cell), next_cell}
           ELSE /\ search_q' = rest
                /\ UNCHANGED <<visited, gen_corridors>>
    /\ UNCHANGED <<inputVars, pc, bfsVars, parents, dfs_path, recVars, gen_strat,
                   prim_q, walls, holes_left, punched, gen_calls, start_cell_buffer,
                   end_cell_buffer, error, callVars, helperVars>>

\* Maze.generate(holes = h) with any h the Maze is asked for
Maze_generate == Maze_generate_holes(0 .. hole_budget)

\* RandomDFS.generate: one iteration of `while search_q`
RandomDFSStep ==
    /\ pc = "gen_dfs"
    /\ search_q # <<>>
    /\ LET current_cell == search_q[Len(search_q)]
           rest == SubSeq(search_q, 1, Len(search_q) - 1)
           unvisited_nbrs == RandomDFSCandidates(current_cell)
       IN  IF unvisited_nbrs # {}
           THEN \E next_cell \in unvisited_nbrs :
                    /\ visited' = visited \cup {next_cell}
                    /\ search_q' = rest \o <<current_cell, next_cell>>
                    /\ gen_corridors' =
                          gen_corridors \cup {Mid(current_cell, next_cell), next_cell}
           ELSE /\ search_q' = rest
                /\ UNCHANGED <<visited, gen_corridors>>
    /\ UNCHANGED <<inputVars, pc, bfsVars, parents, dfs_path, recVars, gen_strat,
                   prim_q, walls, holes_left, punched, gen_calls, start_cell_buffer,
                   end_cell_buffer, error, callVars, helperVars>>

\* RandomDFS.generate: the loop's else, return corridors
RandomDFSReturn ==
    /\ pc = "gen_dfs"
    /\ search_q = <<>>
    /\ pc' = "gen_done"
    /\ visited' = {}
    /\ UNCHANGED <<inputVars, bfsVars, dfsVars, recVars, mazeVars>>

\* RandomPrims.generate: one iteration of `while search_q`
RandomPrimsStep ==
    /\ pc = "gen_prims"
    /\ prim_q # {}
    /\ \E frontier_cell \in prim_q :
         LET connecting_cells == RandomPrimsConnecting(frontier_cell)
         IN  IF connecting_cells = {}
             THEN /\ prim_q' = prim_q \ {frontier_cell}
                  /\ UNCHANGED gen_corridors
             ELSE \E corridor_cell \in connecting_cells :
                    LET carved == gen_corridors \cup
                                    {Mid(frontier_cell, corridor_cell), frontier_cell}
                    IN  /\ gen_corridors' = carved
                        /\ prim_q' = (prim_q \ {frontier_cell}) \cup
                                        RandomPrimsNewFrontier(frontier_cell, carved)
    /\ UNCHANGED <<inputVars, pc, bfsVars, dfsVars, visited, recVars, gen_strat,
                   walls, holes_left, punched, gen_calls, start_cell_buffer,
                   end_cell_buffer, error, callVars, helperVars>>

\* RandomPrims.generate: return corridors
RandomPrimsReturn ==
    /\ pc = "gen_prims"
    /\ prim_q = {}
    /\ pc' = "gen_done"
    /\ UNCHANGED <<inputVars, bfsVars, dfsVars, visited, recVars, mazeVars>>

\* Maze.generate: self.corridors = ...; if holes > 0: self.hole_punch(holes)
\* up to its loop (hole_punch does nothing when the corridors are empty)
GenerateStored ==
    /\ pc = "gen_done"
    /\ corridors' = gen_corridors
    /\ gen_corridors' = {}
    /\ start_coord' = NoCoord
    /\ IF holes_left > 0 /\ gen_corridors # {}
       THEN /\ walls' = InteriorWalls(gen_corridors)
            /\ holes' = holes_left
            /\ pc' = "gen_punch"
            /\ UNCHANGED holes_left
       ELSE /\ pc' = "pick"
            /\ holes_left' = 0
            /\ UNCHANGED <<walls, holes>>
    /\ UNCHANGED <<size_x, size_y, start, end, bfsVars, dfsVars, visited, recVars,
                   gen_strat, prim_q, punched, gen_calls,
                   start_cell_buffer, end_cell_buffer, error, hole_budget, call,
                   returned, solution_path, helperVars>>

\* Maze.hole_punch(holes = h) called on its own, up to its loop
Maze_hole_punch ==
    /\ pc = "idle"
    /\ error = "none"
    /\ call' = "hole_punch"
    /\ \E h \in 0 .. hole_budget - punched :
         /\ punched' = punched + h
         /\ IF corridors # {}
            THEN /\ walls' = InteriorWalls(corridors)
                 /\ holes' = h
                 /\ holes_left' = h
                 /\ pc' = "punch"
                 /\ returned' = Pending
            ELSE /\ returned' = None
                 /\ UNCHANGED <<walls, holes, holes_left, pc>>
    /\ UNCHANGED <<inputVars, bfsVars, dfsVars, visited, recVars, gen_strat,
                   gen_corridors, prim_q, gen_calls, start_cell_buffer, end_cell_buffer,
                   error, start_coord, hole_budget, solution_path, helperVars>>

\* Maze.hole_punch: one iteration of `for _ in range(holes)`; choice(walls)
\* raises IndexError on an empty list
HolePunchStep ==
    /\ pc \in {"punch", "gen_punch"}
    /\ holes_left > 0
    /\ IF walls = {}
       THEN /\ error' = "IndexError"
            /\ pc' = "raised"
            /\ UNCHANGED <<corridors, holes_left>>
       ELSE /\ \E w \in walls : corridors' = corridors \cup {w}
            /\ holes_left' = holes_left - 1
            /\ UNCHANGED <<error, pc>>
    /\ UNCHANGED <<size_x, size_y, start, end, bfsVars, dfsVars, visited, recVars,
                   gen_strat, gen_corridors, prim_q, walls, punched, gen_calls,
                   start_cell_buffer, end_cell_buffer, callVars, helperVars>>

\* Maze.hole_punch returns, to Maze.generate or to the caller
HolePunchReturn ==
    /\ pc \in {"punch", "gen_punch"}
    /\ holes_left = 0
    /\ pc' = IF pc = "gen_punch" THEN "pick" ELSE "idle"
    /\ walls' = {}
    /\ holes' = 0
    /\ returned' = IF pc = "gen_punch" THEN returned ELSE None
    /\ UNCHANGED <<inputVars, bfsVars, dfsVars, visited, recVars, gen_strat,
                   gen_corridors, prim_q, holes_left, punched, gen_calls,
                   start_cell_buffer, end_cell_buffer, error, start_coord,
                   hole_budget, call, solution_path, helperVars>>

\* Maze.generate: self.start = choice(...); self.end = choice(...)
PickStartEnd ==
    /\ pc = "pick"
    /\ IF corridors = {}
       THEN /\ error' = "IndexError"
            /\ pc' = "raised"
            /\ UNCHANGED <<start, end>>
       ELSE /\ start' \in corridors
            /\ end' \in corridors
            /\ pc' = "pick_start"
            /\ UNCHANGED error
    /\ UNCHANGED <<size_x, size_y, corridors, bfsVars, dfsVars, visited, recVars,
                   gen_strat, gen_corridors, prim_q, walls, holes_left, punched,
                   gen_calls, start_cell_buffer, end_cell_buffer, callVars,
                   helperVars>>

\* Maze.generate: one iteration of `while self.start[0] > self.start_cell_buffer`
RedrawStart ==
    /\ pc = "pick_start"
    /\ start[1] > start_cell_buffer
    /\ start' \in corridors
    /\ UNCHANGED <<size_x, size_y, corridors, end, pc, bfsVars, dfsVars, visited,
                   recVars, gen_strat, gen_corridors, prim_q, walls, holes_left,
                   punched, gen_calls, start_cell_buffer, end_cell_buffer, error,
                   callVars, helperVars>>

\* the first draw of start kept whatever its column
StartPicked_NoLoop ==
    /\ pc = "pick_start"
    /\ pc' = "pick_end"
    /\ UNCHANGED <<inputVars, bfsVars, dfsVars, visited, recVars, gen_strat,
                   gen_corridors, prim_q, walls, holes_left, punched, gen_calls,
                   start_cell_buffer, end_cell_buffer, error, callVars, helperVars>>

\* Maze.generate: the first loop is over
StartPicked ==
    /\ pc = "pick_start"
    /\ ~(start[1] > start_cell_buffer)
    /\ pc' = "pick_end"
    /\ UNCHANGED <<inputVars, bfsVars, dfsVars, visited, recVars, gen_strat,
                   gen_corridors, prim_q, walls, holes_left, punched, gen_calls,
                   start_cell_buffer, end_cell_buffer, error, callVars, helperVars>>

\* Maze.generate: one iteration of
\* `while self.end[0] < self.size_x - self.end_cell_buffer`
RedrawEnd ==
    /\ pc = "pick_end"
    /\ end[1] < size_x - end_cell_buffer
    /\ end' \in corridors
    /\ UNCHANGED <<size_x, size_y, corridors, start, pc, bfsVars, dfsVars, visited,
                   recVars, gen_strat, gen_corridors, prim_q, walls, holes_left,
                   punched, gen_calls, start_cell_buffer, end_cell_buffer, error,
                   callVars, helperVars>>

\* Maze.generate returns
GenerateReturn ==
    /\ pc = "pick_end"
    /\ ~(end[1] < size_x - end_cell_buffer)
    /\ pc' = "idle"
    /\ returned' = None
    /\ UNCHANGED <<inputVars, bfsVars, dfsVars, visited, recVars, gen_strat,
                   gen_corridors, prim_q, walls, holes_left, punched, gen_calls,
                   start_cell_buffer, end_cell_buffer, error, start_coord, holes,
                   hole_budget, call, solution_path, helperVars>>

\* solve() without the test `if self.corridors`
Maze_solve_NoGuard ==
    /\ pc = "idle"
    /\ error = "none"
    /\ call' = "solve"
    /\ error' = "TypeError"
    /\ pc' = "raised"
    /\ returned' = Pending
    /\ UNCHANGED <<inputVars, bfsVars, dfsVars, visited, recVars, gen_strat,
                   gen_corridors, prim_q, walls, holes_left, punched, gen_calls,
                   start_cell_buffer, end_cell_buffer, start_coord, holes,
                   hole_budget, solution_path, helperVars>>

\* Maze.solve(): without corridors nothing is done and None is returned.  With
\* corridors, self.solve_strat.solve(..., fps=fps, ...) is called; the solve()
\* of none of the three strategies has a parameter fps, so the call raises
\* TypeError before self.solution_path is assigned.
Maze_solve ==
    /\ pc = "idle"
    /\ error = "none"
    /\ call' = "solve"
    /\ \E solve_strat \in {"BFSSolver", "DFSSolver", "DFSRecursiveSolver"} :
         IF corridors # {}
         THEN /\ error' = "TypeError"
              /\ pc' = "raised"
              /\ returned' = Pending
         ELSE /\ returned' = None
              /\ UNCHANGED <<error, pc>>
    /\ UNCHANGED <<inputVars, bfsVars, dfsVars, visited, recVars, gen_strat,
                   gen_corridors, prim_q, walls, holes_left, punched, gen_calls,
                   start_cell_buffer, end_cell_buffer, start_coord, holes,
                   hole_budget, solution_path, helperVars>>

\* a Maze as constructed, of at most max_x by max_y, with one of the values
\* `stored` passed for the field solution_path: no corridors (None, which
\* hole_punch and solve treat as the empty set), start and end not set
MazeWith(max_x, max_y, budget, stored) ==
    /\ size_x \in 3 .. max_x
    /\ size_y \in 3 .. max_y
    /\ gen_strat \in {"EmptyMaze", "RandomDFS", "RandomPrims"}
    /\ corridors = {}
    /\ start = <<0, 0>>
    /\ end = <<0, 0>>
    /\ SolversIdle
    /\ gen_corridors = {}
    /\ prim_q = {}
    /\ walls = {}
    /\ holes_left = 0
    /\ punched = 0
    /\ gen_calls = 0
    /\ start_cell_buffer \in BufferSettings(start_cell_buffer_default)
    /\ end_cell_buffer = end_cell_buffer_default
    /\ error = "none"
    /\ start_coord = NoCoord
    /\ holes = 0
    /\ hole_budget = budget
    /\ call = "none"
    /\ returned = Pending
    /\ solution_path \in stored
    /\ HelperIdle

\* a Maze constructed with the default of solution_path, None
Maze(max_x, max_y, budget) == MazeWith(max_x, max_y, budget, {None})

InitMaze == Maze(MaxSizeX, MaxSizeY, MaxHoles)

NextMaze ==
    \/ Maze_generate
    \/ RandomDFSStep \/ RandomDFSReturn
    \/ RandomPrimsStep \/ RandomPrimsReturn
    \/ GenerateStored
    \/ Maze_hole_punch \/ HolePunchStep \/ HolePunchReturn
    \/ Maze_solve
    \/ PickStartEnd \/ RedrawStart \/ StartPicked \/ RedrawEnd \/ GenerateReturn

SpecMaze == InitMaze /\ [][NextMaze]_vars

\* the same Maze on wide, flat grids, with a second hole
InitWide == Maze(WideMaxX, WideMaxY, WideMaxHoles)

SpecWide == InitWide /\ [][NextMaze]_vars

\* choice() is uniform: a run keeps taking steps, and a loop that draws again
\* and again draws, sooner or later, a cell that ends it if there is one
FairDraws ==
    /\ WF_vars(NextMaze)
    /\ SF_vars(RedrawStart /\ start'[1] <= start_cell_buffer)
    /\ SF_vars(RedrawEnd /\ end'[1] >= size_x - end_cell_buffer)

SpecWideFair == SpecWide /\ FairDraws

\* -------------------------------------------------- graph notions of the claims
Abs(n) == IF n < 0 THEN -n ELSE n

\* exactly one axis-aligned step apart
Adjacent(a, b) == Abs(a[1] - b[1]) + Abs(a[2] - b[2]) = 1

\* the cells of S reachable from the cells of R by step-1 moves inside S
RECURSIVE Grow(_, _)
Grow(S, R) ==
    LET more == R \cup {c \in S : \E r \in R : Adjacent(c, r)}
    IN  IF more = R THEN R ELSE Grow(S, more)

Reach(S, a) == Grow(S, {a})

\* the shortest step-1 distance inside S from the layer `layer` (at distance
\* d) to b; -1 when b is not reachable
RECURSIVE DistFrom(_, _, _, _, _)
DistFrom(S, layer, seen, b, d) ==
    LET next == {c \in S \ seen : \E r \in layer : Adjacent(c, r)}
    IN  IF b \in layer THEN d
        ELSE IF next = {} THEN -1
        ELSE DistFrom(S, next, seen \cup next, b, d + 1)

Dist(S, a, b) == DistFrom(S, {a}, {a}, b, 0)

\* the cells of P can be put in a sequence from a to b, each once, every
\* consecutive pair one step apart
IsChain(P, a, b) ==
    \E p \in Perms(P) :
        /\ Len(p) >= 1
        /\ p[1] = a
        /\ p[Len(p)] = b
        /\ \A i \in 1 .. Len(p) - 1 : Adjacent(p[i], p[i + 1])

\* a path from start to end inclusive through corridor cells
IsPathStartToEnd(P) ==
    /\ start \in P
    /\ end \in P
    /\ P \subseteq corridors
    /\ IsChain(P, start, end)

BothCorridor == start \in corridors /\ end \in corridors

AllReturned == bfs_path # Pending /\ dfs_path # Pending /\ rec_path # Pending

\* ------------------------------------------------------------------- claims
\* C1: whenever BFSSolver, DFSSolver and DFSRecursiveSolver all return a path
\* for the same corridors, start and end (both corridor cells), the BFS path
\* has no more cells than the path of either DFS solver.
C1_BFSNoLongerThanDFS ==
    (/\ AllReturned
     /\ BothCorridor
     /\ bfs_path.tag = "set"
     /\ dfs_path.cells # {}
     /\ rec_path.cells # {})
    => /\ Cardinality(bfs_path.cells) <= Cardinality(dfs_path.cells)
       /\ Cardinality(bfs_path.cells) <= Cardinality(rec_path.cells)

\* C2: with start and end corridor cells, BFSSolver.solve returns a path
\* exactly when end is reachable from start through corridor cells, and the
\* path then has d + 1 cells, d the shortest distance from start to end.
C2_BFSShortest ==
    (bfs_path # Pending /\ BothCorridor)
    => /\ (bfs_path.tag = "set") <=> (end \in Reach(corridors, start))
       /\ bfs_path.tag = "set"
            => Cardinality(bfs_path.cells) = Dist(corridors, start, end) + 1

\* BFS returned a 3-cell path between two corridor cells although a
\* corridor cell off the path exists
C2_Witness ==
    /\ BothCorridor
    /\ bfs_path.tag = "set"
    /\ Cardinality(bfs_path.cells) = 3
    /\ Cardinality(corridors) >= 4

\* C3: with start and end corridor cells, a non-empty path returned by
\* BFSSolver.solve contains start and end, only corridor cells, and is a
\* simple 4-connected chain from start to end.
C3_BFSPathWellFormed ==
    (bfs_path # Pending /\ BothCorridor /\ bfs_path.cells # {})
    => IsPathStartToEnd(bfs_path.cells)

\* BFS returned a path of four cells
C3_Witness ==
    /\ BothCorridor
    /\ bfs_path.tag = "set"
    /\ Cardinality(bfs_path.cells) = 4
    /\ start # end

\* C4: with start and end corridor cells, a non-empty path returned by the
\* iterative DFSSolver.solve runs from start to end inclusive: it contains
\* both, only corridor cells, and is a simple 4-connected chain.
C4_DFSPathStartToEnd ==
    (dfs_path # Pending /\ BothCorridor /\ dfs_path.cells # {})
    => IsPathStartToEnd(dfs_path.cells)

\* C5: with start and end corridor cells, a non-empty path returned by
\* DFSRecursiveSolver.solve runs from start to end inclusive: it contains
\* both, only corridor cells, and is a simple 4-connected chain.
C5_RecPathStartToEnd ==
    (rec_path # Pending /\ BothCorridor /\ rec_path.cells # {})
    => IsPathStartToEnd(rec_path.cells)

C7_IsolatedStartNoPath ==
    (/\ AllReturned
     /\ start # end
     /\ \A c \in corridors : ~Adjacent(c, start))
    => /\ bfs_path.cells = {}
       /\ dfs_path.cells = {}
       /\ rec_path.cells = {}

\* C8: with start and end corridor cells (start = end included), DFSSolver
\* can return a non-empty path on some neighbour order exactly when
\* DFSRecursiveSolver can.  Whether either solver returns a non-empty path
\* does not depend on the order (DFSStartIsEndEmpty, RecStartIsEndByNeighbour,
\* DFSOutcomeByReach), so this is: whenever both have returned, both results
\* are non-empty or both are empty.
C8_DFSSameOutcome ==
    (AllReturned /\ BothCorridor)
    => (dfs_path.cells # {}) <=> (rec_path.cells # {})

\* with start = end the iterative DFS returns the empty set on every order
DFSStartIsEndEmpty ==
    (dfs_path # Pending /\ start = end) => dfs_path = SetOf({})

\* with start = end a corridor cell, the recursive DFS returns a non-empty
\* result exactly when start has a corridor neighbour, on every order
RecStartIsEndByNeighbour ==
    (rec_path # Pending /\ start = end /\ start \in corridors)
    => (rec_path.cells # {}) <=> (\E c \in corridors : Adjacent(c, start))

\* with start # end, both corridor cells, each DFS solver returns a non-empty
\* result exactly when end is reachable, on every order
DFSOutcomeByReach ==
    (AllReturned /\ BothCorridor /\ start # end)
    => /\ (dfs_path.cells # {}) <=> (end \in Reach(corridors, start))
       /\ (rec_path.cells # {}) <=> (end \in Reach(corridors, start))

\* C9: for every size_x and size_y of at least 3, EmptyMaze.generate returns
\* exactly the cells (x, y) with 1 <= x <= size_x - 2 and 1 <= y <= size_y - 2,
\* the same set on every call with the same dimensions; for 5 by 5, the nine
\* cells with x and y in 1..3.
C9_EmptyMazeFullInterior ==
    (gen_strat = "EmptyMaze" /\ pc = "gen_done")
    => /\ gen_corridors =
            {c \in (0 .. size_x - 1) \X (0 .. size_y - 1) :
                /\ 1 <= c[1] /\ c[1] <= size_x - 2
                /\ 1 <= c[2] /\ c[2] <= size_y - 2}
       /\ (size_x = 5 /\ size_y = 5)
            => gen_corridors = { <<1, 1>>, <<1, 2>>, <<1, 3>>,
                                 <<2, 1>>, <<2, 2>>, <<2, 3>>,
                                 <<3, 1>>, <<3, 2>>, <<3, 3>> }

\* EmptyMaze.generate has returned nine cells for a 5 by 5 grid
C9_Witness ==
    /\ gen_strat = "EmptyMaze"
    /\ pc = "gen_done"
    /\ size_x = 5
    /\ size_y = 5
    /\ Cardinality(gen_corridors) = 9

\* strictly inside the grid: not outside and not on the outer border
StrictlyInside(c) ==
    /\ 0 < c[1] /\ c[1] < size_x - 1
    /\ 0 < c[2] /\ c[2] < size_y - 1

\* C10: in every state during and after RandomDFS.generate and
\* RandomPrims.generate, and after any following Maze.hole_punch, every
\* corridor cell (x, y) has 0 < x < size_x - 1 and 0 < y < size_y - 1,
\* whatever start cell the generator drew.
C10_CorridorsStrictlyInside ==
    gen_strat \in {"RandomDFS", "RandomPrims"}
    => \A c \in gen_corridors \cup corridors : StrictlyInside(c)

\* RandomDFS.generate drew its start on the border, has carved corridors and
\* is back at the start cell
C10_Witness ==
    /\ gen_strat = "RandomDFS"
    /\ pc = "gen_dfs"
    /\ Len(search_q) = 1
    /\ ~StrictlyInside(search_q[1])
    /\ gen_corridors # {}

\* a hole has been punched into a maze of RandomPrims
HolePunchedAfterPrims ==
    /\ gen_strat = "RandomPrims"
    /\ pc = "punch"
    /\ holes_left = 0
    /\ walls \cap corridors # {}

\* every cell of S is reachable from every other by step-1 moves inside S
Connected(S) ==
    S = {} \/ (LET a == CHOOSE c \in S : TRUE IN Reach(S, a) = S)

\* the number of connected pieces of S
RECURSIVE Components(_)
Components(S) ==
    IF S = {} THEN 0
    ELSE LET a == CHOOSE c \in S : TRUE IN 1 + Components(S \ Reach(S, a))

\* the number of pairs of step-1 adjacent cells of S
EdgeCount(S) ==
    Cardinality({c \in S : <<c[1] + 1, c[2]>> \in S})
    + Cardinality({c \in S : <<c[1], c[2] + 1>> \in S})

\* no loop: S is a forest, so there is at most one simple path between two
\* of its cells
Acyclic(S) == EdgeCount(S) = Cardinality(S) - Components(S)

\* C11: for every size_x and size_y of at least 3 and every sequence of random
\* choices, the corridor set returned by RandomDFS.generate is connected under
\* step-1 adjacency restricted to corridor cells.
C11_RandomDFSConnected ==
    (gen_strat = "RandomDFS" /\ pc = "gen_done") => Connected(gen_corridors)

\* C12: in every state of RandomPrims.generate, the final one included, the
\* corridor set contains the start cell and is connected under step-1
\* adjacency restricted to corridor cells.
C12_PrimsConnected ==
    (gen_strat = "RandomPrims" /\ pc \in {"gen_prims", "gen_done"})
    => /\ start_coord \in gen_corridors
       /\ Connected(gen_corridors)

\* RandomPrims.generate is in its loop with five cells carved and frontier
\* cells left
C12_Witness ==
    /\ gen_strat = "RandomPrims"
    /\ pc = "gen_prims"
    /\ prim_q # {}
    /\ Cardinality(gen_corridors) >= 5

\* C13: the corridor set carved by RandomDFS.generate and by
\* RandomPrims.generate never contains a loop, during the run and when it is
\* returned: there is never more than one simple path between two corridor
\* cells.
C13_NoLoop ==
    (gen_strat \in {"RandomDFS", "RandomPrims"} /\ pc \in {"gen_dfs", "gen_prims", "gen_done"})
    => Acyclic(gen_corridors)

\* RandomPrims.generate returned seven cells of a 5 by 5 grid: the four
\* lattice cells and three of the four midpoints between them
C13_Witness ==
    /\ gen_strat = "RandomPrims"
    /\ pc = "gen_done"
    /\ size_x = 5
    /\ size_y = 5
    /\ Cardinality(gen_corridors) = 7

\* a Maze.generate has completed; a later hole_punch may be running, or a
\* later solve or hole_punch may have raised
Generated ==
    /\ gen_calls > 0
    /\ \/ pc \in {"idle", "punch"}
       \/ pc = "raised" /\ call \in {"solve", "hole_punch"}

\* C14: after every completed Maze.generate, and after any later hole_punch
\* and solve calls, start and end are corridor cells, start.x <=
\* start_cell_buffer and end.x >= size_x - end_cell_buffer.
C14_StartEndInBuffers ==
    Generated
    => /\ start \in corridors
       /\ end \in corridors
       /\ start[1] <= start_cell_buffer
       /\ end[1] >= size_x - end_cell_buffer

\* a hole_punch called after a completed generate has opened a wall cell
C14_Witness ==
    /\ gen_calls = 1
    /\ call = "hole_punch"
    /\ pc = "punch"
    /\ holes_left = 0
    /\ walls \cap corridors # {}

\* C15: Maze.generate always terminates: for every grid size, generation
\* strategy and buffer setting, a call of generate returns or raises; the
\* start/end selection never draws forever.
C15_GenerateTerminates ==
    [](call = "generate" => <>(pc \in {"idle", "raised"}))

\* when the selection loops are entered, some corridor cell can end them
SelectionCanStop ==
    /\ pc = "pick_start" => \E c \in corridors : c[1] <= start_cell_buffer
    /\ pc = "pick_end" => \E c \in corridors : c[1] >= size_x - end_cell_buffer

\* the same with the default buffers only
SelectionCanStopByDefault ==
    (/\ start_cell_buffer = start_cell_buffer_default
     /\ end_cell_buffer = end_cell_buffer_default)
    => SelectionCanStop

\* C16: Maze.solve or Maze.hole_punch called before any generate (corridors
\* absent) is a no-op: no error is raised, the call returns None, and
\* corridors and solution_path stay as they were.
C16_NoOpBeforeGenerate ==
    (gen_calls = 0 /\ call \in {"solve", "hole_punch"})
    => /\ error = "none"
       /\ pc = "idle"
       /\ returned = None
       /\ corridors = {}
       /\ solution_path = None

\* solve has been called, and has returned, on a Maze never generated
C16_Witness ==
    /\ gen_calls = 0
    /\ call = "solve"
    /\ returned = None

\* hole_punch with a hole to punch has been called on a Maze never generated
HolePunchBeforeGenerate ==
    /\ gen_calls = 0
    /\ call = "hole_punch"
    /\ punched > 0

\* C17: Maze.solve changes only the solution path and can be called again:
\* for each solving strategy, a solve call on a generated maze returns and
\* leaves the corridor set, start, end and the grid dimensions unchanged.
C17_SolveReentrant ==
    [][(pc = "idle" /\ gen_calls > 0 /\ call' = "solve")
        => /\ UNCHANGED <<size_x, size_y, corridors, start, end>>
           /\ error' = "none"
           /\ pc' = "idle"]_vars

\* C18: after a Maze.solve on a generated maze in which end is not reachable
\* from start, the stored solution state differs from the one before any
\* solve was attempted (None), for every solving strategy.
C18_NoPathDistinguishable ==
    (/\ gen_calls > 0
     /\ call = "solve"
     /\ end \notin Reach(corridors, start))
    => solution_path # None

\* C19: Maze.hole_punch(n) on a generated maze that still has interior wall
\* cells only adds cells.  walls holds the interior wall cells at the call,
\* so the corridors at the call are the other interior cells: they all stay
\* corridors, every added cell is one of walls, after k draws between 1 (when
\* k >= 1) and k cells have been added, at most n in all, and a cell drawn a
\* second time adds nothing.
C19_HolePunchOnlyAdds ==
    (pc \in {"punch", "gen_punch"} /\ walls # {})
    => LET before == Interior(size_x, size_y) \ walls
           added == corridors \ before
           draws == holes - holes_left
       IN  /\ before \subseteq corridors
           /\ added \subseteq walls
           /\ Cardinality(added) <= draws
           /\ draws >= 1 => Cardinality(added) >= 1
           /\ draws <= holes

\* hole_punch(2) has drawn the same wall cell twice: one cell added
C19_Witness ==
    /\ pc = "punch"
    /\ holes = 2
    /\ holes_left = 0
    /\ Cardinality(corridors \cap walls) = 1

\* ------------------------------------------- helper_functions called directly
\* the arguments of one call: a cell, a step >= 1, a grid size, and an exclude
\* set that is absent ({}) or holds one of the four cells around the cell
InitHelper ==
    /\ \E c \in (0 .. HelperMaxCoord) \X (0 .. HelperMaxCoord),
          s \in 1 .. HelperMaxStep,
          sx \in 1 .. HelperMaxSize,
          sy \in 1 .. HelperMaxSize :
         \E ex \in {{}} \cup {{n} : n \in get_neighbors(c, s, 0, 0, {})} :
            nbr_args = [coord |-> c, step |-> s, size_x |-> sx,
                        size_y |-> sy, exclude |-> ex]
    /\ nbr_ret = <<>>
    /\ size_x = 0 /\ size_y = 0
    /\ corridors = {}
    /\ start = <<0, 0>>
    /\ end = <<0, 0>>
    /\ SolversIdle
    /\ MazeFieldsIdle

\* get_neighbors(coord, step), get_neighbors(coord, step, size_x, size_y) and
\* remove_out_of_bounds_neighbors(get_neighbors(coord, step), size_x, size_y)
\* on the same arguments (exclude is passed to both get_neighbors calls);
\* remove_out_of_bounds_neighbors returns a list, in the order the set is
\* iterated
get_neighbors_call ==
    /\ nbr_args # <<>>
    /\ nbr_ret = <<>>
    /\ LET a == nbr_args
           unbounded == get_neighbors(a.coord, a.step, 0, 0, a.exclude)
           bounded == get_neighbors(a.coord, a.step, a.size_x, a.size_y,
                                    a.exclude)
       IN  \E in_bounds_nbrs \in
                  Perms(remove_out_of_bounds_neighbors(unbounded, a.size_x,
                                                       a.size_y)) :
              nbr_ret' = [unbounded |-> unbounded,
                          bounded |-> bounded,
                          kept |-> in_bounds_nbrs]
    /\ UNCHANGED <<inputVars, pc, bfsVars, dfsVars, visited, recVars, gen_strat,
                   gen_corridors, prim_q, walls, holes_left, punched,
                   gen_calls, start_cell_buffer, end_cell_buffer, error,
                   callVars, nbr_args>>

NextHelper == get_neighbors_call

SpecHelper == InitHelper /\ [][NextHelper]_vars

\* the four cells at distance step from coord, written out
FourAround(coord, step) ==
    { <<coord[1], coord[2] - step>>, <<coord[1] + step, coord[2]>>,
      <<coord[1], coord[2] + step>>, <<coord[1] - step, coord[2]>> }

\* C20: for every cell and every step >= 1, get_neighbors without bounds
\* returns exactly the four cells at distance step to the north, east, south
\* and west (four different cells); with bounds (size_x, size_y) it returns
\* exactly those of the four with 0 < x < size_x - 1 and 0 < y < size_y - 1,
\* and remove_out_of_bounds_neighbors applied to the unbounded result keeps
\* the same cells, each once.
C20_NeighboursInBounds ==
    (nbr_ret # <<>> /\ nbr_args.exclude = {})
    => LET a == nbr_args
           four == FourAround(a.coord, a.step)
           inside == {n \in four : /\ 0 < n[1] /\ n[1] < a.size_x - 1
                                   /\ 0 < n[2] /\ n[2] < a.size_y - 1}
       IN  /\ nbr_ret.unbounded = four
           /\ Cardinality(four) = 4
           /\ nbr_ret.bounded = inside
           /\ ToSet(nbr_ret.kept) = nbr_ret.bounded
           /\ Len(nbr_ret.kept) = Cardinality(nbr_ret.bounded)

\* a call next to the border: some of the four cells are kept, the cell on
\* the border row or column is not
C20_Witness ==
    /\ nbr_ret # <<>>
    /\ nbr_args.exclude = {}
    /\ nbr_ret.bounded # {}
    /\ \E n \in nbr_ret.unbounded \ nbr_ret.bounded :
          n[1] \in {0, nbr_args.size_x - 1} \/ n[2] \in {0, nbr_args.size_y - 1}

\* C21: whenever an exclude set is passed to get_neighbors, no cell of that
\* set is in the result, with bounds and without.
C21_ExcludeHonoured ==
    nbr_ret # <<>>
    => /\ nbr_ret.bounded \cap nbr_args.exclude = {}
       /\ nbr_ret.unbounded \cap nbr_args.exclude = {}

\* the part of C21 about calls with bounds
ExcludeHonouredWithBounds ==
    nbr_ret # <<>> => nbr_ret.bounded \cap nbr_args.exclude = {}

\* a call with bounds and an exclude set that holds a cell strictly inside
\* the grid: the cell is left out
ExcludedInsideLeftOut ==
    /\ nbr_ret # <<>>
    /\ \E n \in nbr_args.exclude :
          /\ 0 < n[1] /\ n[1] < nbr_args.size_x - 1
          /\ 0 < n[2] /\ n[2] < nbr_args.size_y - 1
          /\ n \notin nbr_ret.bounded

\* ------------------------------------------------- the generators on their own
\* Maze.generate() up to the return of gen_strat.generate, on larger grids
InitGen == Maze(GenMaxX, GenMaxY, 0)

NextGen ==
    \/ Maze_generate
    \/ RandomDFSStep \/ RandomDFSReturn
    \/ RandomPrimsStep \/ RandomPrimsReturn

\* a running generator keeps taking iterations
SpecGen == InitGen /\ [][NextGen]_vars /\ WF_vars(NextGen)

\* C22: for every size_x and size_y of at least 3 and every sequence of random
\* choices, RandomDFS.generate and RandomPrims.generate terminate: a generator
\* in its loop reaches its return.
C22_GeneratorsTerminate ==
    [](pc \in {"gen_dfs", "gen_prims"} => <>(pc = "gen_done"))

\* the reason, as a step property: an iteration of RandomDFS pushes a cell
\* that was never visited or pops one, an iteration of RandomPrims carves a
\* frontier cell that was no corridor, so 2 * (unvisited interior cells) +
\* stack length and 2 * (uncarved interior cells) - frontier size decrease
IterationsUseUp ==
    [][LET I == Interior(size_x, size_y)
       IN  /\ (pc = "gen_dfs" /\ pc' = "gen_dfs")
                => /\ visited \subseteq visited'
                   /\ 2 * Cardinality(I \ visited') + Len(search_q')
                        < 2 * Cardinality(I \ visited) + Len(search_q)
           /\ (pc = "gen_prims" /\ pc' = "gen_prims")
                => /\ gen_corridors \subseteq gen_corridors'
                   /\ 2 * Cardinality(I \ gen_corridors') - Cardinality(prim_q')
                        < 2 * Cardinality(I \ gen_corridors) - Cardinality(prim_q)]_vars

\* RandomDFS.generate has returned nine or more cells after emptying its
\* stack
C22_Witness ==
    /\ gen_strat = "RandomDFS"
    /\ pc = "gen_done"
    /\ search_q = <<>>
    /\ Cardinality(gen_corridors) >= 9

\* ------------------------------------------ DFSRecursiveSolver on long corridors
\* one straight corridor of n cells in a grid of height 3, solved from its
\* first cell to its last cell or to a wall cell no corridor cell touches
Line(n) == {<<x, 1>> : x \in 1 .. n}

InitDeep ==
    /\ \E n \in {3, RecursionLimit + 1, RecursionLimit + 3} :
          /\ size_x = n + 4
          /\ size_y = 3
          /\ corridors = Line(n)
          /\ start = <<1, 1>>
          /\ end \in {<<n, 1>>, <<n + 2, 1>>}
    /\ SolversIdle
    /\ MazeIdle

NextDeep ==
    \/ DFSRecursiveSolver_solve
    \/ RecLoop \/ RecBacktrack \/ RecReturn \/ RecRecursionError

SpecDeep == InitDeep /\ [][NextDeep]_vars

\* a running solver keeps taking iterations
SpecSolveFair == SpecSolve /\ WF_vars(NextSolve)

\* C23: for every finite corridor set and every start and end, the three
\* solve methods terminate, each by returning a path or by reporting no
\* path: no solve call ends in another way.
C23_SolversEndByReturning ==
    ~(pc = "raised" /\ error = "RecursionError")

\* on the small grids the three solve calls all end by returning
SolversTerminate == <>AllReturned

\* the shortest step-1 distance inside S of every cell reachable from a, as a
\* function: layer holds the cells at distance d, acc the distances below d
RECURSIVE DistLayers(_, _, _, _)
DistLayers(S, layer, acc, d) ==
    LET here == [c \in DOMAIN acc \cup layer |-> IF c \in layer THEN d ELSE acc[c]]
        next == {c \in S \ DOMAIN here : \E r \in layer : Adjacent(c, r)}
    IN  IF next = {} THEN here ELSE DistLayers(S, next, here, d + 1)

DistMap(S, a) == DistLayers(S, {a}, EmptyDict, 0)

\* the cells BFSSolver.solve has dequeued: every searched cell was enqueued
BFSDequeued == searched \ ToSet(search_queue)

\* C24: in every state of BFSSolver.solve no cell is in the queue twice and
\* every queued cell is in searched; every searched cell other than start
\* has a parent that is an adjacent corridor cell dequeued earlier; and cells
\* are dequeued in non-decreasing order of their step-1 corridor distance
\* from start: the queue is in that order and no dequeued cell is farther
\* than a queued one.
C24_BFSQueueDiscipline ==
    pc = "bfs"
    => LET d == DistMap(corridors, start)
           n == Len(search_queue)
       IN  /\ \A i, j \in 1 .. n : i # j => search_queue[i] # search_queue[j]
           /\ ToSet(search_queue) \subseteq searched
           /\ \A c \in searched \ {start} :
                 /\ c \in DOMAIN parent
                 /\ parent[c] \in corridors
                 /\ Adjacent(parent[c], c)
                 /\ parent[c] \in BFSDequeued
           /\ \A i, j \in 1 .. n : i < j => d[search_queue[i]] <= d[search_queue[j]]
           /\ \A c \in BFSDequeued : \A i \in 1 .. n : d[c] <= d[search_queue[i]]

\* BFS has dequeued start and another cell and holds two cells at different
\* distances in its queue
C24_Witness ==
    /\ pc = "bfs"
    /\ Cardinality(BFSDequeued) >= 2
    /\ Len(search_queue) >= 2
    /\ Dist(corridors, start, search_queue[1])
         < Dist(corridors, start, search_queue[Len(search_queue)])

\* exactly one axis-aligned 2-step apart
TwoApart(a, b) ==
    \/ a[1] = b[1] /\ Abs(a[2] - b[2]) = 2
    \/ a[2] = b[2] /\ Abs(a[1] - b[1]) = 2

\* the cells reachable from the cells of R by chains of 2-steps that land on
\* interior cells
RECURSIVE GrowByTwo(_)
GrowByTwo(R) ==
    LET more == R \cup {c \in Interior(size_x, size_y) : \E r \in R : TwoApart(c, r)}
    IN  IF more = R THEN R ELSE GrowByTwo(more)

\* C25: when RandomDFS.generate or RandomPrims.generate returns, every
\* interior cell other than the start cell that a chain of 2-steps landing on
\* interior cells reaches from the start cell is a corridor, and so is the
\* midpoint of a 2-step that joins it to another cell of the chain or to the
\* start cell.
C25_ReachableCellsCarved ==
    (gen_strat \in {"RandomDFS", "RandomPrims"} /\ pc = "gen_done")
    => LET lattice == GrowByTwo({start_coord})
       IN  \A c \in lattice \ {start_coord} :
             /\ c \in gen_corridors
             /\ \E b \in lattice : TwoApart(b, c) /\ Mid(b, c) \in gen_corridors

\* RandomDFS.generate returned after a start on the border from which six
\* interior cells are reached by 2-steps
C25_Witness ==
    /\ gen_strat = "RandomDFS"
    /\ pc = "gen_done"
    /\ start_coord \notin Interior(size_x, size_y)
    /\ Cardinality(GrowByTwo({start_coord}) \ {start_coord}) >= 6

\* C26: for every size_x and size_y of at least 3 and every start cell
\* RandomDFS may draw, RandomDFS.generate returns a non-empty corridor set,
\* and Maze.generate never draws start and end from an empty set.
C26_RandomDFSNonEmpty ==
    /\ (gen_strat = "RandomDFS" /\ pc = "gen_done") => gen_corridors # {}
    /\ ~(call = "generate" /\ pc = "raised" /\ error = "IndexError"
         /\ corridors = {})

\* C27: in every state of the RandomPrims.generate loop no frontier cell is a
\* corridor cell and every frontier cell has an in-bounds step-2 neighbour
\* that is a corridor cell, so a frontier cell is never discarded for want
\* of a connecting cell: every removed frontier cell is carved.
C27_FrontierCellsConnect ==
    (gen_strat = "RandomPrims" /\ pc = "gen_prims")
    => \A frontier_cell \in prim_q :
         /\ frontier_cell \notin gen_corridors
         /\ RandomPrimsConnecting(frontier_cell) # {}

\* the same as a step property: an iteration of the loop adds the frontier
\* cell it removed to the corridors
RemovedFrontierCellCarved ==
    [][(pc = "gen_prims" /\ pc' = "gen_prims")
       => \A c \in prim_q \ prim_q' : c \in gen_corridors' \ gen_corridors]_vars

\* the frontier holds three cells while five cells are carved
C27_Witness ==
    /\ gen_strat = "RandomPrims"
    /\ pc = "gen_prims"
    /\ Cardinality(prim_q) >= 3
    /\ Cardinality(gen_corridors) >= 5

\* --------------------------------------- a Maze constructed with solution_path
\* Maze(..., solution_path=...): the field is None or a one-cell set
InitStored ==
    MazeWith(StoredMaxX, StoredMaxY, StoredMaxHoles,
             {None} \cup {SetOf({c}) : c \in Interior(StoredMaxX, StoredMaxY)})

SpecStored == InitStored /\ [][NextMaze]_vars

\* C28: after any sequence of Maze.generate, hole_punch and solve calls, a
\* stored solution path is absent or every cell of it is a cell of the
\* current corridor set.
C28_StoredPathCurrent ==
    Generated
    => \/ solution_path = None
       \/ solution_path.cells \subseteq corridors

\* none of generate, hole_punch and solve ever assigns solution_path
SolutionPathNeverAssigned ==
    [][solution_path' = solution_path]_vars

\* C29: Maze.hole_punch(n) with n >= 1 on a generated maze that has no
\* interior wall cell left completes without error and leaves the corridor
\* set unchanged: in no state of such a call, and after it, is an error
\* raised.
C29_FullMazePunchCompletes ==
    (/\ holes >= 1
     /\ corridors # {}
     /\ corridors = Interior(size_x, size_y)
     /\ walls = {})
    => error = "none"

\* ------------------------------------------------- generate_and_display_maze
\* generate_and_display_maze(x, y, gen_strat, solve_strat, rend_strat, holes)
\* with holes > 0 (kept in hole_budget): the Maze it constructs has the
\* default buffers
InitDisplay ==
    /\ Maze(DisplayMaxX, DisplayMaxY, DisplayMaxHoles)
    /\ start_cell_buffer = start_cell_buffer_default
    /\ hole_budget >= 1

\* maze.generate(live=live, fps=fps): holes is not passed on and is 0
generate_and_display_maze_generate == Maze_generate_holes({0})

\* maze.solve() or maze.solve(live=live, fps=fps), after generate returned
generate_and_display_maze_solve ==
    /\ gen_calls > 0
    /\ call = "generate"
    /\ Maze_solve

NextDisplay ==
    \/ generate_and_display_maze_generate
    \/ RandomDFSStep \/ RandomDFSReturn
    \/ RandomPrimsStep \/ RandomPrimsReturn
    \/ GenerateStored
    \/ PickStartEnd \/ RedrawStart \/ StartPicked \/ RedrawEnd \/ GenerateReturn
    \/ generate_and_display_maze_solve

SpecDisplay == InitDisplay /\ [][NextDisplay]_vars

\* C30: in a run of generate_and_display_maze with a hole count n > 0 the
\* hole-punch with n draws comes after generation and before solve: when
\* solve is called n holes have been asked for and drawn, and solve ends
\* without error so that render follows.
C30_HolesPunchedBeforeSolve ==
    call = "solve"
    => /\ punched = hole_budget
       /\ error = "none"

\* no hole is ever asked for in a run of generate_and_display_maze, and the
\* run never gets past solve
NoHolePunched ==
    /\ punched = 0
    /\ holes = 0
    /\ call = "solve" => pc = "raised"

=============================================================================
